---------------------------- MODULE Spec2Model ----------------------------
(***************************************************************************)
(* CIFlowBot (src/src/ciflow-bot.ts): a probot webhook handler that        *)
(* reconciles the 'ciflow/' labels of a pull request and toggles the bot   *)
(* assignee to signal the dispatch.                                        *)
(*                                                                         *)
(* JavaScript strings that the code inspects (startsWith, RegExp, split)   *)
(* are sequences of one-character strings; `undefined` is a value that is  *)
(* no such sequence.  One handler execution runs to completion between two *)
(* awaits, so an action is the synchronous code from one suspension point  *)
(* to the next; the platform applies a call when the call settles.         *)
(***************************************************************************)
EXTENDS Integers, Sequences, FiniteSets, TLC

VARIABLES
    issueLabels,  \* platform: the label names on the pull request, in order
    assignees,    \* platform: the logins assigned to the pull request
    pending,      \* webhook deliveries the platform has still to make
    bots,         \* handler execution -> the CIFlowBot instance fields
    pc,           \* handler execution -> where its handler() stands
    frame,        \* handler execution -> the locals of setLabels()
    calls,        \* handler execution -> the platform calls it issued
    log           \* handler execution -> the records it logged

vars == <<issueLabels, assignees, pending, bots, pc, frame, calls, log>>

---------------------------------------------------------------------------
(* Bounds of the model *)

NumHandlers == 2   \* webhook deliveries, each run by its own CIFlowBot
MaxLabels == 2     \* labels on the pull request before the first delivery
MaxSeed == 2       \* length of a dispatch_labels accumulator drawn in InitAny
MaxWords == 4      \* words of a comment body drawn in Payloads

---------------------------------------------------------------------------
(* Strings *)

undefined == <<"undefined">>
\* undefined where a list of labels, and where a number, is expected
undefined_labels == <<undefined>>
undefined_number == 0 - 1

empty == <<>>

allowed_commands == << <<"c","i","f","l","o","w">> >>
bot_app_name == <<"p","y","t","o","r","c","h","b","o","t">>
bot_assignee == <<"p","y","t","o","r","c","h","b","o","t">>
event_issue_comment == "issue_comment"
event_pull_request == "pull_request"
pr_label_prefix == <<"c","i","f","l","o","w","/">>
rollout_users == << <<"z","h","o","u","z","h","u","o","j","i","e">> >>
strategy_add_default_labels == "strategy_add_default_labels"

ciflow_default == <<"c","i","f","l","o","w","/","d","e","f","a","u","l","t">>

\* Array.prototype.includes (Array.prototype.filter is SelectSeq)
Includes(arr, x) == \E i \in 1..Len(arr) : arr[i] = x

\* String.prototype.startsWith
StartsWith(s, prefix) ==
    /\ Len(s) >= Len(prefix)
    /\ SubSeq(s, 1, Len(prefix)) = prefix

\* String.prototype.split(' '): the pieces between single spaces
RECURSIVE Split(_)
Split(s) ==
    IF \A i \in 1..Len(s) : s[i] # " "
    THEN <<s>>
    ELSE LET i == CHOOSE k \in 1..Len(s) :
                      s[k] = " " /\ \A j \in 1..(k - 1) : s[j] # " "
         IN  <<SubSeq(s, 1, i - 1)>> \o Split(SubSeq(s, i + 1, Len(s)))

WordChars ==
    {"a","b","c","d","e","f","g","h","i","j","k","l","m",
     "n","o","p","q","r","s","t","u","v","w","x","y","z",
     "A","B","C","D","E","F","G","H","I","J","K","L","M",
     "N","O","P","Q","R","S","T","U","V","W","X","Y","Z",
     "0","1","2","3","4","5","6","7","8","9","_"}
LineTerminators == {"\n", "\r"}
SpaceChars == {" ", "\t"} \cup LineTerminators

\* the length of the longest run of characters of `class` that starts at s[from]
RECURSIVE Run(_, _, _)
Run(s, from, class) ==
    IF from <= Len(s) /\ s[from] \in class
    THEN 1 + Run(s, from + 1, class)
    ELSE 0

NoLineTerminator(s, from, to) == \A k \in from..to : s[k] \notin LineTerminators

---------------------------------------------------------------------------
(* CIFlowBot: the synchronous methods *)

\* The match of ^.*@pytorchbot\s+(\w+)\s?(.*)$ that starts its mention at s[at]:
\* every quantifier is greedy, and giving characters back never turns a
\* failing match into a matching one.
MatchAt(s, at) ==
    LET mention == <<"@">> \o bot_app_name
        afterMention == at + Len(mention)
        spaces == Run(s, afterMention, SpaceChars)
        wordFrom == afterMention + spaces
        word == Run(s, wordFrom, WordChars)
        wordTo == wordFrom + word - 1
        restFrom == IF wordTo < Len(s) /\ s[wordTo + 1] \in SpaceChars
                    THEN wordTo + 2
                    ELSE wordTo + 1
    IN  IF /\ at + Len(mention) - 1 <= Len(s)
           /\ SubSeq(s, at, at + Len(mention) - 1) = mention
           /\ NoLineTerminator(s, 1, at - 1)
           /\ spaces >= 1
           /\ word >= 1
           /\ NoLineTerminator(s, restFrom, Len(s))
        THEN [ok |-> TRUE,
              g1 |-> SubSeq(s, wordFrom, wordTo),
              g2 |-> SubSeq(s, restFrom, Len(s))]
        ELSE [ok |-> FALSE, g1 |-> empty, g2 |-> empty]

\* comment_body?.match(re): the greedy ^.* prefers the last mention that matches
Match(body) ==
    IF body = undefined
    THEN [ok |-> FALSE, g1 |-> empty, g2 |-> empty]
    ELSE LET starts == {at \in 1..Len(body) : body[at] = "@" /\ MatchAt(body, at).ok}
         IN  IF starts = {}
             THEN [ok |-> FALSE, g1 |-> empty, g2 |-> empty]
             ELSE MatchAt(body, CHOOSE at \in starts : \A o \in starts : o <= at)

\* parseComment() that leaves no argument when nothing follows the command
parseComment_noEmptyArg(b) ==
    LET found == Match(b.comment_body)
    IN  IF ~found.ok
        THEN b
        ELSE [b EXCEPT !.command = found.g1,
                       !.command_args = IF found.g2 = empty
                                        THEN <<>>
                                        ELSE Split(found.g2)]

parseComment(b) ==
    LET found == Match(b.comment_body)
    IN  IF ~found.ok
        THEN b
        ELSE [b EXCEPT !.command = found.g1,
                       !.command_args = Split(found.g2)]

\* setContext() that keeps every label of the payload in pr_labels
setContext_unfiltered(b, ctx) ==
    parseComment(
        [b EXCEPT !.event = ctx.name,
                  !.pr_number = ctx.payload.pr.number,
                  !.pr_author = ctx.payload.pr.user,
                  !.pr_labels = ctx.payload.pr.labels,
                  !.comment_author = ctx.payload.comment.user,
                  !.comment_body = ctx.payload.comment.body,
                  !.owner = ctx.payload.repository.owner,
                  !.repo = ctx.payload.repository.name])

\* a property the payload lacks reads as undefined through every ?. chain
setContext(b, ctx) ==
    LET payload == ctx.payload
        isNamespaced(label) == StartsWith(label, pr_label_prefix)
        hasPr == "pr" \in DOMAIN payload
        hasComment == "comment" \in DOMAIN payload
        hasRepository == "repository" \in DOMAIN payload
    IN  parseComment(
            [b EXCEPT !.event = ctx.name,
                      !.pr_number = IF hasPr /\ "number" \in DOMAIN payload.pr
                                    THEN payload.pr.number
                                    ELSE undefined_number,
                      !.pr_author = IF hasPr /\ "user" \in DOMAIN payload.pr
                                    THEN payload.pr.user
                                    ELSE undefined,
                      !.pr_labels = IF hasPr /\ "labels" \in DOMAIN payload.pr
                                    THEN SelectSeq(payload.pr.labels, isNamespaced)
                                    ELSE undefined_labels,
                      !.comment_author = IF hasComment
                                         THEN payload.comment.user
                                         ELSE undefined,
                      !.comment_body = IF hasComment
                                       THEN payload.comment.body
                                       ELSE undefined,
                      !.owner = IF hasRepository
                                THEN payload.repository.owner
                                ELSE undefined,
                      !.repo = IF hasRepository
                               THEN payload.repository.name
                               ELSE undefined])

\* valid() that lets any commenter through
valid_anyCommenter(b) ==
    IF b.event # event_pull_request /\ b.event # event_issue_comment
    THEN FALSE
    ELSE IF b.event = event_issue_comment
         THEN b.comment_author # empty /\ Includes(allowed_commands, b.command)
         ELSE TRUE

\* valid() that checks the commenter and the command on every event
valid_allEvents(b) ==
    /\ b.event \in {event_pull_request, event_issue_comment}
    /\ b.comment_author # empty
    /\ b.comment_author = b.pr_author
    /\ Includes(allowed_commands, b.command)

valid(b) ==
    IF b.event # event_pull_request /\ b.event # event_issue_comment
    THEN FALSE
    ELSE IF b.event = event_issue_comment
         THEN IF b.comment_author = empty \/ b.comment_author = undefined
              THEN FALSE
              ELSE IF b.comment_author # b.pr_author
                   THEN FALSE
                   ELSE IF ~Includes(allowed_commands, b.command)
                        THEN FALSE
                        ELSE TRUE
         ELSE TRUE

\* valid() that logs nothing
validLog_silent(b) == <<>>

\* the records valid() logs
validLog(b) ==
    IF b.event # event_pull_request /\ b.event # event_issue_comment
    THEN <<[level |-> "error", msg |-> "Unknown webhook event"]>>
    ELSE IF /\ b.event = event_issue_comment
            /\ b.comment_author = empty \/ b.comment_author = undefined
         THEN <<[level |-> "error", msg |-> "Empty comment author"]>>
         ELSE <<>>

\* rollout() that lets every author through
rollout_everyone(b) == TRUE

rollout(b) ==
    IF Includes(rollout_users, b.pr_author) THEN TRUE ELSE FALSE

\* strategy_add_default_labels that seeds the accumulator and adds nothing
dispatch_strategy_func_noDefault(b, strategyName) ==
    IF strategyName = strategy_add_default_labels /\ Len(b.dispatch_labels) = 0
    THEN [b EXCEPT !.dispatch_labels = b.pr_labels]
    ELSE b

\* strategy_add_default_labels that seeds the accumulator from pr_labels only
\* when the command came without an argument
dispatch_strategy_func_byArgs(b, strategyName) ==
    IF strategyName = strategy_add_default_labels
    THEN LET noArgs == b.command_args = <<>> \/ b.command_args = <<empty>>
             seeded == IF Len(b.dispatch_labels) = 0 /\ noArgs
                       THEN b.pr_labels
                       ELSE b.dispatch_labels
         IN  [b EXCEPT !.dispatch_labels = <<ciflow_default>> \o seeded]
    ELSE b

\* strategy_add_default_labels that never seeds the accumulator from pr_labels
dispatch_strategy_func_unseeded(b, strategyName) ==
    IF strategyName = strategy_add_default_labels
    THEN [b EXCEPT !.dispatch_labels = <<ciflow_default>> \o b.dispatch_labels]
    ELSE b

\* strategy_add_default_labels that prepends 'ciflow/slow' for the default
dispatch_strategy_func_otherDefault(b, strategyName) ==
    IF strategyName = strategy_add_default_labels
    THEN LET seeded == IF Len(b.dispatch_labels) = 0
                       THEN b.pr_labels
                       ELSE b.dispatch_labels
         IN  [b EXCEPT !.dispatch_labels =
                          <<pr_label_prefix \o <<"s", "l", "o", "w">>>> \o seeded]
    ELSE b

dispatch_strategy_func(b, strategyName) ==
    IF strategyName = strategy_add_default_labels
    THEN LET seeded == IF Len(b.dispatch_labels) = 0
                       THEN b.pr_labels
                       ELSE b.dispatch_labels
         IN  [b EXCEPT !.dispatch_labels = <<ciflow_default>> \o seeded]
    ELSE b

\* the records dispatch_strategy_func logs over the pipeline
strategyLog(strategies) ==
    LET unknown(name) == name # strategy_add_default_labels
        record(name) == [level |-> "error", msg |-> "Unknown dispatch strategy"]
    IN  [i \in 1..Len(SelectSeq(strategies, unknown)) |->
            record(SelectSeq(strategies, unknown)[i])]

\* this.dispatch_strategies.map(this.dispatch_strategy_func.bind(this))
RECURSIVE runStrategies(_, _)
runStrategies(b, strategies) ==
    IF strategies = <<>>
    THEN b
    ELSE runStrategies(dispatch_strategy_func(b, Head(strategies)),
                       Tail(strategies))

\* setLabels() that adds the whole target, present or not
setLabelsPlan_addAll(b) ==
    LET hasPrefix(label) == StartsWith(label, pr_label_prefix)
        labels == SelectSeq(b.dispatch_labels, hasPrefix)
        notInTarget(l) == ~Includes(labels, l)
    IN  [labels |-> labels,
         labelsToDelete |-> SelectSeq(b.pr_labels, notInTarget),
         labelsToAdd |-> labels,
         next |-> 1]

\* setLabels(), up to its first call: the three lists it computes
setLabelsPlan(b) ==
    LET hasPrefix(label) == StartsWith(label, pr_label_prefix)
        labels == SelectSeq(b.dispatch_labels, hasPrefix)
        notInTarget(l) == ~Includes(labels, l)
        notOnPr(l) == ~Includes(b.pr_labels, l)
    IN  [labels |-> labels,
         labelsToDelete |-> SelectSeq(b.pr_labels, notInTarget),
         labelsToAdd |-> SelectSeq(labels, notOnPr),
         next |-> 1]


---------------------------------------------------------------------------
(* Webhook deliveries *)

zhouzhuojie == <<"z","h","o","u","z","h","u","o","j","i","e">>
pytorch == <<"p","y","t","o","r","c","h">>
alice == <<"a","l","i","c","e">>

ciflow_old == <<"c","i","f","l","o","w","/","o","l","d">>
ciflow_slow == <<"c","i","f","l","o","w","/","s","l","o","w">>
bug == <<"b","u","g">>

\* the labels a pull request may carry, in the order the platform lists them
LabelOrder == <<ciflow_default, ciflow_old, bug>>
LabelOrderAny == <<ciflow_default, ciflow_old, ciflow_slow, bug>>

\* the sequences that keep at most n entries of `order`
Listings(order, n) ==
    {LET kept(l) == l \in S IN SelectSeq(order, kept) :
        S \in {T \in SUBSET {order[i] : i \in 1..Len(order)} : Cardinality(T) <= n}}

\* the label names a strategy may put in the accumulator
LabelUniverse == {ciflow_default, ciflow_old, ciflow_slow, bug}

\* "@pytorchbot ciflow", "hey @pytorchbot ciflow default", "@pytorchbot rebase"
body_ciflow == <<"@">> \o bot_app_name \o <<" ","c","i","f","l","o","w">>
body_ciflow_default ==
    <<"h","e","y"," ">> \o body_ciflow \o <<" ","d","e","f","a","u","l","t">>
body_rebase == <<"@">> \o bot_app_name \o <<" ","r","e","b","a","s","e">>

Bodies == {body_ciflow, body_ciflow_default, body_rebase}

\* the event names main() subscribes to, as probot's ctx.name gives them
Events == {event_pull_request, event_issue_comment}

\* sequences over S of length at most n
RECURSIVE SeqsUpTo(_, _)
SeqsUpTo(S, n) ==
    IF n = 0
    THEN {<<>>}
    ELSE LET shorter == SeqsUpTo(S, n - 1)
         IN  shorter \cup {Append(q, x) : <<q, x>> \in shorter \X S}

\* the probot.Context of a delivery for the pull request as it stands: a
\* pull_request event carries no comment, an issue_comment event carries the
\* commenter's login ('' included) and the comment body
Contexts ==
    {[name |-> name,
      payload |-> [pr |-> [number |-> 1, user |-> author, labels |-> issueLabels],
                   comment |-> comment,
                   repository |-> [owner |-> pytorch, name |-> pytorch]]] :
        <<name, author, comment>> \in
            {<<n, a, c>> \in Events \X {zhouzhuojie, alice}
                    \X ({[user |-> undefined, body |-> undefined]} \cup
                        [user : {zhouzhuojie, alice, empty}, body : Bodies]) :
                (n = event_pull_request) <=> (c.user = undefined)}}

\* the words of a comment body: the mention and three plain words
Words ==
    {<<"@">> \o bot_app_name,
     <<"c","i","f","l","o","w">>,
     <<"d","e","f","a","u","l","t">>,
     <<"h","e","y">>}

\* the words with one space between neighbours
RECURSIVE Join(_)
Join(words) ==
    IF words = <<>>
    THEN <<>>
    ELSE IF Len(words) = 1
         THEN words[1]
         ELSE words[1] \o <<" ">> \o Join(Tail(words))

WordBodies == {Join(words) : words \in SeqsUpTo(Words, MaxWords)}

\* the object without the property
Without(obj, property) == [f \in DOMAIN obj \ {property} |-> obj[f]]

\* every probot.Context handler() may be handed for the pull request: the
\* deliveries of Contexts, the same with one property that setContext() reads
\* through ?. left out (the pull request, its user, its labels, the comment,
\* the repository), and the comments of the pull-request author over WordBodies
Payloads ==
    Contexts
    \cup {[ctx EXCEPT !.payload = Without(ctx.payload, property)] :
            <<ctx, property>> \in Contexts \X {"pr", "comment", "repository"}}
    \cup {[ctx EXCEPT !.payload.pr = Without(ctx.payload.pr, property)] :
            <<ctx, property>> \in Contexts \X {"user", "labels"}}
    \cup {[name |-> event_issue_comment,
           payload |-> [pr |-> [number |-> 1, user |-> zhouzhuojie,
                                labels |-> issueLabels],
                        comment |-> [user |-> zhouzhuojie, body |-> body],
                        repository |-> [owner |-> pytorch, name |-> pytorch]]] :
            body \in WordBodies}

---------------------------------------------------------------------------
(* State *)

Handlers == 1..NumHandlers

\* new CIFlowBot(ctx): the instance fields as declared
NewCIFlowBot ==
    [command |-> empty,
     command_args |-> <<>>,
     comment_author |-> empty,
     comment_body |-> empty,
     dispatch_labels |-> <<>>,
     dispatch_strategies |-> <<strategy_add_default_labels>>,
     event |-> "",
     owner |-> empty,
     pr_author |-> empty,
     pr_labels |-> <<>>,
     pr_number |-> 0,
     repo |-> empty]

NoFrame == [labels |-> <<>>, labelsToDelete |-> <<>>, labelsToAdd |-> <<>>, next |-> 1]

Awaiting == {"removeLabel", "addLabels", "addAssignees", "removeAssignees"}

Init ==
    /\ issueLabels \in Listings(LabelOrder, MaxLabels)
    /\ assignees \in SUBSET {bot_assignee}
    /\ pending = NumHandlers
    /\ bots = [h \in Handlers |-> NewCIFlowBot]
    /\ pc = [h \in Handlers |-> "Start"]
    /\ frame = [h \in Handlers |-> NoFrame]
    /\ calls = [h \in Handlers |-> <<>>]
    /\ log = [h \in Handlers |-> <<>>]

---------------------------------------------------------------------------
(* Platform calls *)

\* ctx.github.issues.<op>({owner, repo, issue_number, ...}): the request as it
\* leaves; the handler is suspended on it until it settles
Call(op, b, arg) ==
    [op |-> op, owner |-> b.owner, repo |-> b.repo,
     issue_number |-> b.pr_number, arg |-> arg, state |-> "pending"]

\* the call the handler is suspended on settles
Settled(cs, outcome) == [cs EXCEPT ![Len(cs)].state = outcome]

\* a platform call that replaces the labels of the pull request by the names
WithLabels_replaced(current, names) == names

\* the platform adds the names that the pull request does not carry yet
RECURSIVE WithLabels(_, _)
WithLabels(current, names) ==
    IF names = <<>>
    THEN current
    ELSE WithLabels(IF Includes(current, Head(names))
                    THEN current
                    ELSE Append(current, Head(names)),
                    Tail(names))

\* the platform takes the name off the pull request
WithoutLabel(current, name) ==
    LET other(l) == l # name IN SelectSeq(current, other)

---------------------------------------------------------------------------
(* CIFlowBot: the asynchronous methods, from suspension to suspension *)

\* setLabels(): the call it makes with f.next - 1 removals behind it
setLabelsCall(b, f) ==
    IF f.next <= Len(f.labelsToDelete)
    THEN Call("removeLabel", b, f.labelsToDelete[f.next])
    ELSE Call("addLabels", b, f.labelsToAdd)

\* setLabels() that leaves dispatch_labels as the pipeline built it
setLabelsEnd_kept(b, f) == b

\* setLabels(): its last statement, once addLabels has settled
setLabelsEnd(b, f) == [b EXCEPT !.dispatch_labels = f.labels]

\* signal_github() that unassigns first and assigns second
signal_github_swapped(b, step) ==
    IF step = 1
    THEN Call("removeAssignees", b, <<bot_assignee>>)
    ELSE Call("addAssignees", b, <<bot_assignee>>)

\* signal_github(): its first and its second call
signal_github(b, step) ==
    IF step = 1
    THEN Call("addAssignees", b, <<bot_assignee>>)
    ELSE Call("removeAssignees", b, <<bot_assignee>>)

Info(msg) == [level |-> "info", msg |-> msg]

\* handler() that checks the rollout before the validity
handler_rolloutFirst(h, ctx) ==
    LET started == <<Info("ciflow dispatch started!")>>
    IN  \E b \in {setContext(bots[h], ctx)} :
        LET d == runStrategies(b, b.dispatch_strategies)
            plan == setLabelsPlan(d)
            first == setLabelsCall(d, plan)
        IN  IF ~rollout(b)
            THEN /\ bots' = [bots EXCEPT ![h] = b]
                 /\ log' = [log EXCEPT ![h] = started]
                 /\ pc' = [pc EXCEPT ![h] = "GatedOut"]
                 /\ UNCHANGED <<frame, calls>>
            ELSE IF ~valid(b)
            THEN /\ bots' = [bots EXCEPT ![h] = b]
                 /\ log' = [log EXCEPT ![h] = started \o validLog(b)]
                 /\ pc' = [pc EXCEPT ![h] = "Rejected"]
                 /\ UNCHANGED <<frame, calls>>
            ELSE IF b.pr_labels = undefined_labels
            THEN \* [...this.dispatch_labels], or this.pr_labels.filter, throws
                 /\ bots' = [bots EXCEPT ![h] =
                        IF Len(b.dispatch_labels) = 0
                        THEN [b EXCEPT !.dispatch_labels = b.pr_labels]
                        ELSE d]
                 /\ log' = [log EXCEPT ![h] = started \o validLog(b)]
                 /\ pc' = [pc EXCEPT ![h] = "Threw"]
                 /\ UNCHANGED <<frame, calls>>
            ELSE IF "repository" \notin DOMAIN ctx.payload
            THEN \* this.ctx.payload.repository.owner throws as the argument
                 \* of the first call is built
                 /\ bots' = [bots EXCEPT ![h] = d]
                 /\ log' = [log EXCEPT ![h] =
                        started \o validLog(b) \o strategyLog(b.dispatch_strategies)]
                 /\ pc' = [pc EXCEPT ![h] = "Threw"]
                 /\ UNCHANGED <<frame, calls>>
            ELSE /\ bots' = [bots EXCEPT ![h] = d]
                 /\ log' = [log EXCEPT ![h] =
                        started \o validLog(b) \o strategyLog(b.dispatch_strategies)]
                 /\ frame' = [frame EXCEPT ![h] = plan]
                 /\ calls' = [calls EXCEPT ![h] = Append(calls[h], first)]
                 /\ pc' = [pc EXCEPT ![h] = first.op]

\* handler() from its start to its first suspension or its return
handler(h, ctx) ==
    LET started == <<Info("ciflow dispatch started!")>>
    IN  \E b \in {setContext(bots[h], ctx)} :
        LET d == runStrategies(b, b.dispatch_strategies)
            plan == setLabelsPlan(d)
            first == setLabelsCall(d, plan)
        IN  IF ~valid(b)
            THEN /\ bots' = [bots EXCEPT ![h] = b]
                 /\ log' = [log EXCEPT ![h] = started \o validLog(b)]
                 /\ pc' = [pc EXCEPT ![h] = "Rejected"]
                 /\ UNCHANGED <<frame, calls>>
            ELSE IF ~rollout(b)
            THEN /\ bots' = [bots EXCEPT ![h] = b]
                 /\ log' = [log EXCEPT ![h] = started \o validLog(b)]
                 /\ pc' = [pc EXCEPT ![h] = "GatedOut"]
                 /\ UNCHANGED <<frame, calls>>
            ELSE IF b.pr_labels = undefined_labels
            THEN \* [...this.dispatch_labels], or this.pr_labels.filter, throws
                 /\ bots' = [bots EXCEPT ![h] =
                        IF Len(b.dispatch_labels) = 0
                        THEN [b EXCEPT !.dispatch_labels = b.pr_labels]
                        ELSE d]
                 /\ log' = [log EXCEPT ![h] = started \o validLog(b)]
                 /\ pc' = [pc EXCEPT ![h] = "Threw"]
                 /\ UNCHANGED <<frame, calls>>
            ELSE IF "repository" \notin DOMAIN ctx.payload
            THEN \* this.ctx.payload.repository.owner throws as the argument
                 \* of the first call is built
                 /\ bots' = [bots EXCEPT ![h] = d]
                 /\ log' = [log EXCEPT ![h] =
                        started \o validLog(b) \o strategyLog(b.dispatch_strategies)]
                 /\ pc' = [pc EXCEPT ![h] = "Threw"]
                 /\ UNCHANGED <<frame, calls>>
            ELSE /\ bots' = [bots EXCEPT ![h] = d]
                 /\ log' = [log EXCEPT ![h] =
                        started \o validLog(b) \o strategyLog(b.dispatch_strategies)]
                 /\ frame' = [frame EXCEPT ![h] = plan]
                 /\ calls' = [calls EXCEPT ![h] = Append(calls[h], first)]
                 /\ pc' = [pc EXCEPT ![h] = first.op]

\* app.on(..., webhookHandler): a delivery starts handler() on a new CIFlowBot
Deliver(h) ==
    /\ pending > 0
    /\ pc[h] = "Start"
    /\ \A g \in Handlers : g < h => pc[g] # "Start"
    /\ pending' = pending - 1
    /\ \E ctx \in Contexts : handler(h, ctx)
    /\ UNCHANGED <<issueLabels, assignees>>

\* setLabels(): a removeLabel call succeeds; the loop goes on or addLabels follows
RemoveLabelSettles(h) ==
    /\ pc[h] = "removeLabel"
    /\ LET f == frame[h]
           following == setLabelsCall(bots[h], [f EXCEPT !.next = f.next + 1])
       IN  /\ issueLabels' = WithoutLabel(issueLabels, f.labelsToDelete[f.next])
           /\ frame' = [frame EXCEPT ![h].next = f.next + 1]
           /\ calls' = [calls EXCEPT ![h] =
                  Append(Settled(calls[h], "ok"), following)]
           /\ pc' = [pc EXCEPT ![h] = following.op]
    /\ UNCHANGED <<assignees, pending, bots, log>>

\* setLabels(): addLabels succeeds and setLabels() ends; signal_github() starts
AddLabelsSettles(h) ==
    /\ pc[h] = "addLabels"
    /\ issueLabels' = WithLabels(issueLabels, frame[h].labelsToAdd)
    /\ bots' = [bots EXCEPT ![h] = setLabelsEnd(bots[h], frame[h])]
    /\ calls' = [calls EXCEPT ![h] =
           Append(Settled(calls[h], "ok"), signal_github(bots[h], 1))]
    /\ pc' = [pc EXCEPT ![h] = "addAssignees"]
    /\ UNCHANGED <<assignees, pending, frame, log>>

\* signal_github() that ends once addAssignees has succeeded
AddAssigneesSettles_last(h) ==
    /\ pc[h] = "addAssignees"
    /\ assignees' = assignees \cup {bot_assignee}
    /\ calls' = [calls EXCEPT ![h] = Settled(calls[h], "ok")]
    /\ log' = [log EXCEPT ![h] = Append(log[h], Info("ciflow dispatch success!"))]
    /\ pc' = [pc EXCEPT ![h] = "Done"]
    /\ UNCHANGED <<issueLabels, pending, bots, frame>>

\* signal_github(): addAssignees succeeds, removeAssignees is issued
AddAssigneesSettles(h) ==
    /\ pc[h] = "addAssignees"
    /\ assignees' = assignees \cup {bot_assignee}
    /\ calls' = [calls EXCEPT ![h] =
           Append(Settled(calls[h], "ok"), signal_github(bots[h], 2))]
    /\ pc' = [pc EXCEPT ![h] = "removeAssignees"]
    /\ UNCHANGED <<issueLabels, pending, bots, frame, log>>

\* signal_github(): removeAssignees succeeds; dispatch() logs and handler() returns
RemoveAssigneesSettles(h) ==
    /\ pc[h] = "removeAssignees"
    /\ assignees' = assignees \ {bot_assignee}
    /\ calls' = [calls EXCEPT ![h] = Settled(calls[h], "ok")]
    /\ log' = [log EXCEPT ![h] = Append(log[h], Info("ciflow dispatch success!"))]
    /\ pc' = [pc EXCEPT ![h] = "Done"]
    /\ UNCHANGED <<issueLabels, pending, bots, frame>>

\* a rejected call that is caught and issued once more
CallFails_retried(h) ==
    /\ pc[h] \in Awaiting
    /\ \A i \in 1..Len(calls[h]) : calls[h][i].state # "failed"
    /\ calls' = [calls EXCEPT ![h] =
           Append(Settled(calls[h], "failed"), calls[h][Len(calls[h])])]
    /\ UNCHANGED <<issueLabels, assignees, pending, bots, pc, frame, log>>

\* an awaited call rejects: nothing catches it, the error leaves handler()
CallFails(h) ==
    /\ pc[h] \in Awaiting
    /\ calls' = [calls EXCEPT ![h] = Settled(calls[h], "failed")]
    /\ pc' = [pc EXCEPT ![h] = "Failed"]
    /\ UNCHANGED <<issueLabels, assignees, pending, bots, frame, log>>

Next ==
    \E h \in Handlers :
        \/ Deliver(h)
        \/ AddLabelsSettles(h)
        \/ AddAssigneesSettles(h)
        \/ RemoveAssigneesSettles(h)
        \/ CallFails(h)

Spec == Init /\ [][Next]_vars

---------------------------------------------------------------------------
(* setLabels() for every accumulator: one handler execution whose           *)
(* dispatch_labels holds what an earlier strategy of the pipeline left      *)

InitAny ==
    /\ issueLabels \in Listings(LabelOrderAny, MaxLabels)
    /\ assignees \in SUBSET {bot_assignee}
    /\ pending = 1
    /\ \E seed \in SeqsUpTo(LabelUniverse, MaxSeed) :
           bots = [h \in Handlers |->
                      [NewCIFlowBot EXCEPT !.dispatch_labels = seed]]
    /\ pc = [h \in Handlers |-> "Start"]
    /\ frame = [h \in Handlers |-> NoFrame]
    /\ calls = [h \in Handlers |-> <<>>]
    /\ log = [h \in Handlers |-> <<>>]

NextAny ==
    \E h \in Handlers :
        \/ Deliver(h)
        \/ RemoveLabelSettles(h)
        \/ AddLabelsSettles(h)
        \/ AddAssigneesSettles(h)
        \/ RemoveAssigneesSettles(h)
        \/ CallFails(h)

SpecAny == InitAny /\ [][NextAny]_vars

\* the call handler h is suspended on settles, one way or the other
Settles(h) ==
    \/ RemoveLabelSettles(h)
    \/ AddLabelsSettles(h)
    \/ AddAssigneesSettles(h)
    \/ RemoveAssigneesSettles(h)
    \/ CallFails(h)

\* SpecAny where every platform call settles in the end
SpecAnyLive == SpecAny /\ \A h \in Handlers : WF_vars(Settles(h))

---------------------------------------------------------------------------
(* handler() for every payload: one handler execution on a delivery that    *)
(* may lack a property, or whose comment is any body of a few words         *)

InitPayload ==
    /\ issueLabels \in Listings(LabelOrder, MaxLabels)
    /\ assignees \in SUBSET {bot_assignee}
    /\ pending = 1
    /\ bots = [h \in Handlers |-> NewCIFlowBot]
    /\ pc = [h \in Handlers |-> "Start"]
    /\ frame = [h \in Handlers |-> NoFrame]
    /\ calls = [h \in Handlers |-> <<>>]
    /\ log = [h \in Handlers |-> <<>>]

\* webhookHandler on any payload
DeliverPayload(h) ==
    /\ pending > 0
    /\ pc[h] = "Start"
    /\ \A g \in Handlers : g < h => pc[g] # "Start"
    /\ pending' = pending - 1
    /\ \E ctx \in Payloads : handler(h, ctx)
    /\ UNCHANGED <<issueLabels, assignees>>

NextPayload ==
    \E h \in Handlers :
        \/ DeliverPayload(h)
        \/ AddLabelsSettles(h)
        \/ AddAssigneesSettles(h)
        \/ RemoveAssigneesSettles(h)
        \/ CallFails(h)

SpecPayload == InitPayload /\ [][NextPayload]_vars

---------------------------------------------------------------------------
(* Properties *)

ToSet(seq) == {seq[i] : i \in 1..Len(seq)}

Namespaced(label) == StartsWith(label, pr_label_prefix)

\* handler h went past rollout() into dispatch()
Dispatched(h) == pc[h] \in Awaiting \cup {"Done", "Failed"}

SuccessLogged(h) == Includes(log[h], Info("ciflow dispatch success!"))

\* the comment of h's delivery does not authorize it
Unauthorized(b) ==
    \/ b.comment_author = empty
    \/ b.comment_author # b.pr_author
    \/ ~Includes(allowed_commands, b.command)

\* C1: an issue_comment delivery whose comment author is empty or is not the
\* pull-request author, or whose command is not an allowed command, is one for
\* which valid() is false, and its handler returns without a platform call.
C1_UnauthorizedCommentMakesNoCall ==
    \A h \in Handlers :
        (/\ pc[h] # "Start"
         /\ bots[h].event = event_issue_comment
         /\ Unauthorized(bots[h]))
        => (/\ ~valid(bots[h])
            /\ pc[h] = "Rejected"
            /\ calls[h] = <<>>)

\* a comment "@pytorchbot ciflow" by somebody else on a rollout user's pull
\* request that lacks the default label, and a comment with an empty author
C1_Witness ==
    /\ ~Includes(issueLabels, ciflow_default)
    /\ \E h, g \in Handlers :
        /\ pc[h] = "Rejected" /\ pc[g] = "Rejected"
        /\ bots[h].event = event_issue_comment
        /\ bots[h].pr_author = zhouzhuojie
        /\ bots[h].comment_author = alice
        /\ bots[h].command = allowed_commands[1]
        /\ bots[g].event = event_issue_comment
        /\ bots[g].comment_author = empty
        /\ bots[g].command = allowed_commands[1]

\* C2: when the pull-request author is not a rollout user, rollout() is false
\* and the handler returns without a platform call, valid() true or not.
C2_NotRolledOutMakesNoCall ==
    \A h \in Handlers :
        (pc[h] # "Start" /\ ~Includes(rollout_users, bots[h].pr_author))
        => (/\ ~rollout(bots[h])
            /\ pc[h] \in {"Rejected", "GatedOut"}
            /\ calls[h] = <<>>)

\* alice asks for ciflow on her own pull request: valid, and gated out
C2_Witness ==
    /\ ~Includes(issueLabels, ciflow_default)
    /\ \E h \in Handlers :
        /\ pc[h] = "GatedOut"
        /\ valid(bots[h])
        /\ bots[h].event = event_issue_comment
        /\ bots[h].pr_author = alice
        /\ calls[h] = <<>>

\* the call dispatch() makes in place i, given the locals f of setLabels()
ExpectedCall(b, f, i) ==
    LET n == Len(f.labelsToDelete)
    IN  IF i <= n THEN [op |-> "removeLabel", arg |-> f.labelsToDelete[i]]
        ELSE IF i = n + 1 THEN [op |-> "addLabels", arg |-> f.labelsToAdd]
        ELSE IF i = n + 2 THEN [op |-> "addAssignees", arg |-> <<bot_assignee>>]
        ELSE [op |-> "removeAssignees", arg |-> <<bot_assignee>>]

\* C3: a handler that reaches dispatch() issues one removeLabel per entry of
\* labelsToDelete, then addLabels, then addAssignees, then removeAssignees,
\* each only when the call before it has completed; it logs the success only
\* when removeAssignees has completed.
C3_CallsAreSequential ==
    \A h \in Handlers :
        LET cs == calls[h]
            n == Len(frame[h].labelsToDelete)
        IN  /\ ~Dispatched(h) => cs = <<>> /\ ~SuccessLogged(h)
            /\ Dispatched(h) =>
                /\ Len(cs) \in 1..(n + 3)
                /\ \A i \in 1..Len(cs) :
                    /\ cs[i].op = ExpectedCall(bots[h], frame[h], i).op
                    /\ cs[i].arg = ExpectedCall(bots[h], frame[h], i).arg
                    /\ i < Len(cs) => cs[i].state = "ok"
                /\ cs[Len(cs)].state = "pending" <=> pc[h] \in Awaiting
                /\ pc[h] \in Awaiting => pc[h] = cs[Len(cs)].op
                /\ SuccessLogged(h) <=> pc[h] = "Done"
                /\ pc[h] = "Done" => Len(cs) = n + 3 /\ cs[n + 3].state = "ok"

\* a dispatch that removed two labels and added one has returned
C3_Witness ==
    \E h \in Handlers :
        /\ pc[h] = "Done"
        /\ Len(frame[h].labelsToDelete) = 2
        /\ Len(frame[h].labelsToAdd) = 1
        /\ Len(calls[h]) = 5

\* the lists of setLabels() are the two set differences of the pull request's
\* labels and the prefix-filtered target, and no call names a label without
\* the prefix
ExactDifferences ==
    \A h \in Handlers :
        Dispatched(h) =>
            LET f == frame[h]
                target == {l \in ToSet(bots[h].dispatch_labels) : Namespaced(l)}
            IN  /\ ToSet(f.labels) = target
                /\ ToSet(f.labelsToDelete) = ToSet(bots[h].pr_labels) \ target
                /\ ToSet(f.labelsToAdd) = target \ ToSet(bots[h].pr_labels)
                /\ \A i \in 1..Len(calls[h]) :
                    /\ calls[h][i].op = "removeLabel"
                           => Namespaced(calls[h][i].arg)
                    /\ calls[h][i].op = "addLabels"
                           => \A l \in ToSet(calls[h][i].arg) : Namespaced(l)

\* a step leaves every label without the prefix on, or off, the pull request
OtherLabelsKept ==
    \A l \in LabelUniverse :
        ~Namespaced(l) => (Includes(issueLabels, l) <=> Includes(issueLabels', l))

\* C4: labelsToDelete is exactly the pull request's labels that the filtered
\* target lacks, labelsToAdd exactly the filtered target's labels that the pull
\* request lacks; no removeLabel or addLabels call names a label without the
\* 'ciflow/' prefix, and no step changes such a label on the pull request.
C4_ExactNamespacedDifferences == []ExactDifferences /\ [][OtherLabelsKept]_vars

\* a dispatch on a pull request that carries 'bug' removed a label and added one
C4_Witness ==
    \E h \in Handlers :
        /\ pc[h] = "Done"
        /\ Includes(issueLabels, bug)
        /\ Len(frame[h].labelsToDelete) = 1
        /\ Len(frame[h].labelsToAdd) = 1

\* what the calls of h before the failed one did is still on the pull request
EarlierCallsStand(h) ==
    \A i \in 1..(Len(calls[h]) - 1) :
        LET c == calls[h][i]
        IN  /\ c.state = "ok"
            /\ c.op = "removeLabel" => ~Includes(issueLabels, c.arg)
            /\ c.op = "addLabels" => \A l \in ToSet(c.arg) : Includes(issueLabels, l)
            /\ c.op = "addAssignees" => bot_assignee \in assignees

FailureAborts ==
    \A h \in Handlers :
        /\ \A i \in 1..Len(calls[h]) :
               calls[h][i].state = "failed" => i = Len(calls[h]) /\ pc[h] = "Failed"
        /\ pc[h] = "Failed" =>
               /\ calls[h] # <<>>
               /\ calls[h][Len(calls[h])].state = "failed"
               /\ ~SuccessLogged(h)
               /\ EarlierCallsStand(h)

FailedStaysFailed ==
    \A h \in Handlers :
        pc[h] = "Failed" =>
            /\ pc'[h] = "Failed"
            /\ calls'[h] = calls[h]
            /\ log'[h] = log[h]
            /\ issueLabels' = issueLabels
            /\ assignees' = assignees

\* C5: a failed platform call ends the handler: the call is the last one the
\* handler ever issues (no retry, no later call), the success record is not
\* logged, and what the earlier calls changed stays changed; after a failed
\* removeAssignees the bot is still assigned.
C5_FailurePropagates == []FailureAborts /\ [][FailedStaysFailed]_vars

\* removeAssignees failed after a removal and an addition: the bot is assigned
C5_Witness ==
    \E h \in Handlers :
        /\ pc[h] = "Failed"
        /\ calls[h][Len(calls[h])].op = "removeAssignees"
        /\ Len(frame[h].labelsToDelete) = 1
        /\ Len(frame[h].labelsToAdd) = 1
        /\ bot_assignee \in assignees

\* C6: when a dispatch has succeeded, the 'ciflow/' labels on the pull request
\* are the labels of dispatch_labels; no label that the pull request carried
\* was added, and no label of the target was removed.
C6_ConvergesWithMinimalDiff ==
    \A h \in Handlers :
        pc[h] = "Done" =>
            /\ {l \in ToSet(issueLabels) : Namespaced(l)}
                   = ToSet(bots[h].dispatch_labels)
            /\ \A i \in 1..Len(calls[h]) :
                /\ calls[h][i].op = "addLabels" =>
                       \A l \in ToSet(calls[h][i].arg) : ~Includes(bots[h].pr_labels, l)
                /\ calls[h][i].op = "removeLabel" =>
                       ~Includes(bots[h].dispatch_labels, calls[h][i].arg)

\* a dispatch towards a target with 'ciflow/old' and the default label, on a
\* pull request that carried 'ciflow/slow': one label kept off, two added
C6_Witness ==
    \E h \in Handlers :
        /\ pc[h] = "Done"
        /\ bots[h].pr_labels = <<ciflow_slow>>
        /\ ToSet(bots[h].dispatch_labels) = {ciflow_default, ciflow_old}
        /\ {l \in ToSet(issueLabels) : Namespaced(l)} = {ciflow_default, ciflow_old}

\* C7: a handler whose delivery finds on the pull request the 'ciflow/' labels
\* that an earlier successful dispatch produced computes an empty labelsToAdd
\* and an empty labelsToDelete: it issues no removeLabel call, and its
\* addLabels call carries the empty list.
C7_SecondDispatchChangesNothing ==
    \A g, h \in Handlers :
        (/\ g # h
         /\ pc[g] = "Done"
         /\ Dispatched(h)
         /\ ToSet(bots[h].pr_labels) = ToSet(bots[g].dispatch_labels))
        => (/\ frame[h].labelsToAdd = <<>>
            /\ frame[h].labelsToDelete = <<>>
            /\ calls[h][1].op = "addLabels"
            /\ calls[h][1].arg = <<>>
            /\ \A i \in 1..Len(calls[h]) : calls[h][i].op # "removeLabel")

\* a second dispatch has succeeded on the labels the first one produced, among
\* them a label the first one added
C7_Witness ==
    \E g, h \in Handlers :
        /\ g # h
        /\ pc[g] = "Done" /\ pc[h] = "Done"
        /\ frame[g].labelsToAdd = <<ciflow_default>>
        /\ ToSet(bots[h].pr_labels) = ToSet(bots[g].dispatch_labels)
        /\ ToSet(bots[h].pr_labels) = {ciflow_old, ciflow_default}
        /\ calls[h][1].state = "ok"

\* the logins and commands a delivery may carry
AnyLogin == {zhouzhuojie, alice, empty, undefined}
AnyCommand == {empty, allowed_commands[1], <<"r","e","b","a","s","e">>}

\* C8: valid() is true for a pull_request delivery, whoever the pull-request
\* author and the comment author are and whatever the command is: such a
\* delivery is never rejected.
C8_PullRequestEventsAreValid ==
    \A h \in Handlers :
        (pc[h] # "Start" /\ bots[h].event = event_pull_request)
        => /\ pc[h] # "Rejected"
           /\ \A author \in AnyLogin, commenter \in AnyLogin, command \in AnyCommand :
                  valid([bots[h] EXCEPT !.pr_author = author,
                                        !.comment_author = commenter,
                                        !.command = command])

\* a pull_request delivery of alice's is gated out, one of zhouzhuojie's is done
C8_Witness ==
    \E g, h \in Handlers :
        /\ bots[g].event = event_pull_request /\ bots[h].event = event_pull_request
        /\ bots[g].pr_author = alice /\ pc[g] = "GatedOut"
        /\ bots[h].pr_author = zhouzhuojie /\ pc[h] = "Done"

\* the calls of a dispatch that only adds the default label
DefaultOnlyCalls ==
    <<[op |-> "addLabels", arg |-> <<ciflow_default>>],
      [op |-> "addAssignees", arg |-> <<bot_assignee>>],
      [op |-> "removeAssignees", arg |-> <<bot_assignee>>]>>

\* C9: a pull_request delivery by a rollout user for a pull request without
\* 'ciflow/' labels issues addLabels(['ciflow/default']), addAssignees(bot),
\* removeAssignees(bot), in this order and nothing else, and ends with
\* dispatch_labels = ['ciflow/default'].
C9_FirstDispatchAddsDefault ==
    \A h \in Handlers :
        (/\ pc[h] # "Start"
         /\ bots[h].event = event_pull_request
         /\ Includes(rollout_users, bots[h].pr_author)
         /\ bots[h].pr_labels = <<>>)
        => /\ Dispatched(h)
           /\ Len(calls[h]) \in 1..3
           /\ \A i \in 1..Len(calls[h]) :
                  /\ calls[h][i].op = DefaultOnlyCalls[i].op
                  /\ calls[h][i].arg = DefaultOnlyCalls[i].arg
                  /\ calls[h][i].issue_number = bots[h].pr_number
           /\ pc[h] = "Done" =>
                  /\ bots[h].dispatch_labels = <<ciflow_default>>
                  /\ Len(calls[h]) = 3
                  /\ \A i \in 1..3 : calls[h][i].state = "ok"

\* such a delivery is done, and the pull request carries the default label
C9_Witness ==
    \E h \in Handlers :
        /\ pc[h] = "Done"
        /\ bots[h].event = event_pull_request
        /\ bots[h].pr_labels = <<>>
        /\ Includes(issueLabels, ciflow_default)
        /\ bot_assignee \notin assignees

\* C10: after a successful dispatch no label occurs twice in dispatch_labels,
\* and every label of dispatch_labels starts with 'ciflow/'.
C10_DispatchLabelsAreUnique ==
    \A h \in Handlers :
        pc[h] = "Done" =>
            LET labels == bots[h].dispatch_labels
            IN  /\ \A i, j \in 1..Len(labels) : labels[i] = labels[j] => i = j
                /\ \A i \in 1..Len(labels) : Namespaced(labels[i])

\* C11: at every step of a handler, each label of its dispatch_labels was on
\* the pull request when the webhook was delivered or is 'ciflow/default':
\* the delivery step builds dispatch_labels from labels the platform holds at
\* that moment, and no later step adds one. Every addLabels call therefore
\* carries no label but 'ciflow/default'.
C11_OnlyDefaultIsNew ==
    /\ [][\A h \in Handlers :
            /\ pc[h] = "Start" /\ pc'[h] # "Start" =>
                   \A l \in ToSet(bots'[h].dispatch_labels) :
                       l = ciflow_default \/ Includes(issueLabels, l)
            /\ pc[h] # "Start" =>
                   ToSet(bots'[h].dispatch_labels) \subseteq
                       ToSet(bots[h].dispatch_labels)]_vars
    /\ [](\A h \in Handlers : \A i \in 1..Len(calls[h]) :
            calls[h][i].op = "addLabels" =>
                ToSet(calls[h][i].arg) \subseteq {ciflow_default})

\* a finished dispatch on a pull request that carried 'ciflow/old': the label
\* is in dispatch_labels, and the addLabels call carried the default alone
C11_Witness ==
    \E h \in Handlers :
        /\ pc[h] = "Done"
        /\ Includes(bots[h].pr_labels, ciflow_old)
        /\ Includes(bots[h].dispatch_labels, ciflow_old)
        /\ Includes(bots[h].dispatch_labels, ciflow_default)
        /\ \E i \in 1..Len(calls[h]) :
               /\ calls[h][i].op = "addLabels"
               /\ calls[h][i].arg = <<ciflow_default>>

Populated(b) ==
    /\ b.owner # undefined
    /\ b.repo # undefined
    /\ b.pr_number # undefined_number
    /\ b.pr_author # undefined

\* C13: setContext() yields a fully populated event or fails: when the
\* repository owner or name, the pull-request number or the pull-request
\* author is absent from the payload, the handler stops at the extraction,
\* before it logs, validates, checks the rollout or dispatches.
C13_ExtractionFailsOnAbsentField ==
    \A h \in Handlers :
        pc[h] # "Start" /\ ~Populated(bots[h]) =>
            /\ pc[h] = "Threw"
            /\ log[h] = <<>>
            /\ calls[h] = <<>>
            /\ bots[h].dispatch_labels = <<>>

\* the places of a mention that a word follows, among the words of a body
MentionsBeforeWord(words) ==
    {i \in 1..Len(words) - 1 :
        /\ words[i] = <<"@">> \o bot_app_name
        /\ words[i + 1] # empty
        /\ \A k \in 1..Len(words[i + 1]) : words[i + 1][k] \in WordChars}

\* C14: for a comment body made of words with one space between neighbours,
\* parseComment() leaves command empty and command_args empty when no mention
\* '@pytorchbot' is followed by a word; otherwise command is the word after
\* the mention (the last such mention, when there are several) and
\* command_args is the list of the words after it, [''] when there is none.
C14_CommandFollowsMention ==
    \A h \in Handlers :
        (/\ pc[h] # "Start"
         /\ bots[h].event = event_issue_comment
         /\ bots[h].comment_body \in WordBodies)
        => LET words == Split(bots[h].comment_body)
               mentions == MentionsBeforeWord(words)
               last == CHOOSE i \in mentions : \A o \in mentions : o <= i
           IN  IF mentions = {}
               THEN /\ bots[h].command = empty
                    /\ bots[h].command_args = <<>>
               ELSE /\ bots[h].command = words[last + 1]
                    /\ bots[h].command_args =
                           IF last + 1 = Len(words)
                           THEN <<empty>>
                           ELSE SubSeq(words, last + 2, Len(words))

\* 'hey @pytorchbot ciflow default' gave ciflow and ['default']
C14_Witness ==
    \E h \in Handlers :
        /\ pc[h] = "Done"
        /\ bots[h].comment_body = body_ciflow_default
        /\ bots[h].command = <<"c","i","f","l","o","w">>
        /\ bots[h].command_args = << <<"d","e","f","a","u","l","t">> >>

\* handler h ran to its end, rejected, gated out or with every call succeeding
FinishedWell(h) == pc[h] \in {"Rejected", "GatedOut", "Done"}

\* C15: for concurrent deliveries on one pull request whose calls all
\* succeed, whatever the interleaving: once every handler has finished and
\* one has dispatched, the 'ciflow/' labels of the pull request are the ones
\* it carried before the first delivery plus 'ciflow/default'; no step takes
\* a label off the pull request; and a step changes the fields, locals, calls
\* and log of one handler at most. (The first delivery reads the labels of
\* the initial state, so the pr_labels of handler 1 are the initial ones.)
C15_ConcurrentDispatchesConverge ==
    /\ [](((\A h \in Handlers : FinishedWell(h)) /\ (\E h \in Handlers : pc[h] = "Done"))
            => {l \in ToSet(issueLabels) : Namespaced(l)} =
                   ToSet(bots[1].pr_labels) \cup {ciflow_default})
    /\ [][/\ ToSet(issueLabels) \subseteq ToSet(issueLabels')
          /\ \A h, g \in Handlers :
                (/\ h # g
                 /\ <<bots[h], pc[h], frame[h], calls[h], log[h]>> #
                        <<bots'[h], pc'[h], frame'[h], calls'[h], log'[h]>>)
                => <<bots[g], pc[g], frame[g], calls[g], log[g]>> =
                       <<bots'[g], pc'[g], frame'[g], calls'[g], log'[g]>>]_vars

\* two dispatches that both read ['ciflow/old'] before either added the
\* default are done, and the pull request carries both labels
C15_Witness ==
    /\ pending = 0
    /\ \A h \in Handlers : pc[h] = "Done"
    /\ \A h \in Handlers : bots[h].pr_labels = <<ciflow_old>>
    /\ {l \in ToSet(issueLabels) : Namespaced(l)} = {ciflow_old, ciflow_default}

\* C16: with the pipeline as configured (the accumulator starts empty and
\* strategy_add_default_labels is the one strategy), setLabels() computes an
\* empty labelsToDelete on every payload, no handler issues or awaits a
\* removeLabel call, and the 'ciflow/' labels the delivery found are still on
\* the pull request.
C16_NothingToDelete ==
    \A h \in Handlers :
        /\ frame[h].labelsToDelete = <<>>
        /\ pc[h] # "removeLabel"
        /\ \A i \in 1..Len(calls[h]) : calls[h][i].op # "removeLabel"
        /\ Dispatched(h) =>
               /\ frame[h].labels = <<ciflow_default>> \o bots[h].pr_labels
               /\ \A l \in ToSet(bots[h].pr_labels) : Includes(frame[h].labels, l)
        /\ pc[h] # "Start" /\ bots[h].pr_labels # undefined_labels =>
               \A l \in ToSet(bots[h].pr_labels) : Includes(issueLabels, l)

\* a finished dispatch on a pull request with 'ciflow/old', which a target
\* of the default alone would delete: it made its three calls, none a removal
C16_Witness ==
    \E h \in Handlers :
        /\ pc[h] = "Done"
        /\ bots[h].pr_labels = <<ciflow_old>>
        /\ frame[h].labelsToAdd = <<ciflow_default>>
        /\ Len(calls[h]) = 3
        /\ Includes(issueLabels, ciflow_old)
        /\ Includes(issueLabels, ciflow_default)

\* C17: once every delivery has been handled and every handler has finished
\* with all its calls succeeding, one of them a dispatch, 'pytorchbot' is not
\* an assignee of the pull request, whatever the interleaving of the handlers
\* and whether or not it was an assignee before.
C17_BotIsUnassignedAtTheEnd ==
    (/\ pending = 0
     /\ \A h \in Handlers : FinishedWell(h)
     /\ \E h \in Handlers : pc[h] = "Done")
    => bot_assignee \notin assignees

\* every handler dispatched and is done, the second one delivered before the
\* first one's addLabels settled
C17_Witness ==
    /\ pending = 0
    /\ \A h \in Handlers : pc[h] = "Done" /\ calls[h][3].op = "removeAssignees"
    /\ \A h \in Handlers : ~Includes(bots[h].pr_labels, ciflow_default)
    /\ bot_assignee \notin assignees

\* the delivery of handler h is an issue_comment that valid() and rollout()
\* let through
AuthorizedComment(h) ==
    /\ pc[h] # "Start"
    /\ bots[h].event = event_issue_comment
    /\ valid(bots[h])
    /\ rollout(bots[h])

\* C18: the parsed arguments do not influence the outcome: two authorized
\* issue_comment deliveries for the same pull request and author that found
\* the same 'ciflow/' labels, whatever their comment bodies and command_args,
\* compute the same target, the same labels to delete and to add, and issue
\* the same platform calls in the same order, as far as both have come.
C18_ArgsDoNotMatter ==
    \A g, h \in Handlers :
        (/\ AuthorizedComment(g)
         /\ AuthorizedComment(h)
         /\ bots[g].pr_labels = bots[h].pr_labels)
        => /\ frame[g].labels = frame[h].labels
           /\ frame[g].labelsToDelete = frame[h].labelsToDelete
           /\ frame[g].labelsToAdd = frame[h].labelsToAdd
           /\ \A i \in 1..Len(calls[g]) :
                  i <= Len(calls[h]) =>
                      [calls[g][i] EXCEPT !.state = "ok"] =
                          [calls[h][i] EXCEPT !.state = "ok"]
           /\ pc[g] = "Done" /\ pc[h] = "Done" =>
                  /\ bots[g].dispatch_labels = bots[h].dispatch_labels
                  /\ Len(calls[g]) = Len(calls[h])

\* '@pytorchbot ciflow' and 'hey @pytorchbot ciflow default' on a pull request
\* with 'ciflow/old': arguments [''] and ['default'], both dispatches done
C18_Witness ==
    \E g, h \in Handlers :
        /\ pc[g] = "Done" /\ pc[h] = "Done"
        /\ bots[g].comment_body = body_ciflow
        /\ bots[g].command_args = <<empty>>
        /\ bots[h].comment_body = body_ciflow_default
        /\ bots[h].command_args = << <<"d","e","f","a","u","l","t">> >>
        /\ bots[g].pr_labels = <<ciflow_old>>
        /\ bots[h].pr_labels = <<ciflow_old>>

\* the steps of a handler: from the delivery to a return or the first call,
\* from a call to the next one, to the end of dispatch() or to a failure
HandlerSteps ==
    ({"Start"} \X {"Rejected", "GatedOut", "removeLabel", "addLabels"})
    \cup {<<"removeLabel", "addLabels">>,
          <<"addLabels", "addAssignees">>,
          <<"addAssignees", "removeAssignees">>,
          <<"removeAssignees", "Done">>}
    \cup (Awaiting \X {"Failed"})

\* C19: a handler goes from Start through the extraction to Rejected, to
\* GatedOut or into the dispatch, and from there call by call to Done (or out
\* by a failed call); validity is decided before the rollout (an invalid
\* delivery is Rejected whatever the author, a gated one is valid); it logs
\* 'ciflow dispatch started!' exactly once; it issues at most one removeLabel
\* per 'ciflow/' label of the pull request, each for a different label, and
\* three calls more; and, every call settling in the end, it terminates.
C19_HandlerTerminates ==
    /\ [][\A h \in Handlers :
            pc'[h] # pc[h] => <<pc[h], pc'[h]>> \in HandlerSteps]_vars
    /\ [](\A h \in Handlers :
            /\ pc[h] = "Rejected" => ~valid(bots[h])
            /\ pc[h] = "GatedOut" => valid(bots[h]) /\ ~rollout(bots[h])
            /\ Dispatched(h) => valid(bots[h]) /\ rollout(bots[h])
            /\ pc[h] = "Start" => log[h] = <<>> /\ calls[h] = <<>>
            /\ pc[h] # "Start" =>
                   Cardinality({i \in 1..Len(log[h]) :
                       log[h][i] = Info("ciflow dispatch started!")}) = 1
            /\ LET removals == {i \in 1..Len(calls[h]) :
                                   calls[h][i].op = "removeLabel"}
               IN  /\ Cardinality(removals) <= Len(bots[h].pr_labels)
                   /\ \A i, j \in removals :
                          calls[h][i].arg = calls[h][j].arg => i = j
                   /\ \A i \in removals : Includes(bots[h].pr_labels, calls[h][i].arg)
                   /\ Len(calls[h]) - Cardinality(removals) <= 3)
    /\ \A h \in Handlers :
           (pc[h] \in Awaiting) ~> (pc[h] \in {"Done", "Failed"})

\* a dispatch that removed two labels and made its three further calls is done
C19_Witness ==
    \E h \in Handlers :
        /\ pc[h] = "Done"
        /\ Len(bots[h].pr_labels) = 2
        /\ Len(calls[h]) = 5
        /\ calls[h][1].op = "removeLabel"
        /\ calls[h][2].op = "removeLabel"
        /\ Len(log[h]) = 2

=============================================================================
